---- MODULE Spec2Model ----
(***************************************************************************)
(* Model of the kube_nodes_provider and crashd_config Starlark built-ins   *)
(* of crash-diagnostics (package starlark).                                *)
(*                                                                         *)
(* A Starlark value is a record [type, v].  A struct is a function from    *)
(* its field names to values.  A Go error is a sequence of messages, the   *)
(* outermost wrapping first; the nil error is the empty sequence.  A Go    *)
(* pointer result is a sequence of length 0 (nil) or 1.                    *)
(***************************************************************************)
EXTENDS Integers, Sequences, FiniteSets, TLC

VARIABLES
    kwargs,       \* keyword arguments of the script's kube_nodes_provider call
    cluster,      \* what the cluster answers: client construction, search, items
    threadLocal,  \* starlark.Thread locals (the shared execution context)
    provider,     \* outcome of the latest newKubeNodesProvider call
    prev,         \* outcome of the call before it (<<>> when there is none)
    config,       \* outcome of the latest crashdConfigFn call
    fn            \* name of the built-in called last

vars == <<kwargs, cluster, threadLocal, provider, prev, config, fn>>

----------------------------------------------------------------------------
(* Bounds *)

MaxNodes == 2      \* items returned by one search, over all result objects
MaxResults == 2    \* result objects returned by one search
MaxAddrs == 2      \* addresses in one node's status
MaxKwargs == 2     \* keyword arguments of one crashd_config call

----------------------------------------------------------------------------
(* Values *)

Str(s) == [type |-> "string", v |-> s]
List(s) == [type |-> "list", v |-> s]
Struct(s) == [type |-> "struct", v |-> s]
NilValue == [type |-> "nil", v |-> ""]

nilErr == <<>>

\* errors.Wrap / errors.Wrapf
Wrap(err, msg) == <<msg>> \o err

SeqUpTo(S, n) == UNION {[1..k -> S] : k \in 0..n}

RECURSIVE Flatten(_)
Flatten(ss) == IF ss = <<>> THEN <<>> ELSE Head(ss) \o Flatten(Tail(ss))

----------------------------------------------------------------------------
(* identifiers *)

sshCfg == "ssh_config"
kubeCfg == "kube_config"
crashdCfg == "crashd_config"
kubeNodesProvider == "kube_nodes_provider"

----------------------------------------------------------------------------
(* Collaborators: helpers of the package defined in other files, and libraries *)

\* kwargsToStruct: the keyword tuples become the fields of a struct; a later
\* tuple with the same key replaces an earlier one.
kwargsToStruct(kw) ==
    IF \E i \in DOMAIN kw : kw[i][1].type # "string"
    THEN [value |-> <<>>, err |-> <<"kwargs key is not a string">>]
    ELSE [value |-> << [k \in {kw[i][1].v : i \in DOMAIN kw} |->
                          kw[CHOOSE i \in DOMAIN kw :
                                /\ kw[i][1].v = k
                                /\ \A j \in DOMAIN kw : kw[j][1].v = k => j <= i][2]] >>,
          err |-> nilErr]

\* thread.Local(key): the stored value, nil when the key was never set
Local(thread, key) == thread[key]

\* getKubeConfigPath: the explicit kube_config argument, else the thread's
\* default; an error when neither is there.
getKubeConfigPath(thread, structVal) ==
    IF kubeCfg \in DOMAIN structVal
    THEN [path |-> structVal[kubeCfg].v, err |-> nilErr]
    ELSE IF Local(thread, kubeCfg).type = "struct"
         THEN [path |-> Local(thread, kubeCfg).v, err |-> nilErr]
         ELSE [path |-> "", err |-> <<"default kube_config not found">>]

\* k8s.New(kubeconfig): the cluster decides whether a client can be built
k8sNew(cl, kubeconfig) ==
    IF cl.newOk
    THEN [client |-> <<kubeconfig>>, err |-> nilErr]
    ELSE [client |-> <<>>, err |-> <<"client construction failed">>]

\* k8s.NewSearchParams(struct): reads the names and labels attributes
NewSearchParams(structVal) ==
    [names  |-> IF "names" \in DOMAIN structVal THEN structVal["names"] ELSE List(""),
     labels |-> IF "labels" \in DOMAIN structVal THEN structVal["labels"] ELSE List("")]

\* (*k8s.Client).Search: the cluster's answer to the query
Search(cl, group, kind, namespaces, version, names, labels, containers) ==
    IF cl.searchOk
    THEN [results |-> cl.results, err |-> nilErr]
    ELSE [results |-> <<>>, err |-> <<"search failed">>]

\* runtime.DefaultUnstructuredConverter.FromUnstructured(item.Object, &node)
FromUnstructured(item) ==
    IF item.ok
    THEN [node |-> [Status |-> [Addresses |-> item.addrs]], err |-> nilErr]
    ELSE [node |-> [Status |-> [Addresses |-> <<>>]], err |-> <<"cannot convert item">>]

----------------------------------------------------------------------------
(* kube_nodes_provider *)

\* variant: a later InternalIP entry replaces an earlier one
RECURSIVE scanAddresses_last(_)
scanAddresses_last(addrs) ==
    IF addrs = <<>> THEN ""
    ELSE LET rest == scanAddresses_last(Tail(addrs)) IN
         IF rest # "" THEN rest
         ELSE IF Head(addrs).Type = "InternalIP" THEN Head(addrs).Address
         ELSE ""

RECURSIVE scanAddresses(_)
scanAddresses(addrs) ==
    IF addrs = <<>> THEN ""
    ELSE IF Head(addrs).Type = "InternalIP" THEN Head(addrs).Address
    ELSE scanAddresses(Tail(addrs))

getNodeInternalIP(node) == scanAddresses(node.Status.Addresses)

\* variant: an item that does not convert is skipped
RECURSIVE collateItems_skipBad(_, _)
collateItems_skipBad(items, nodes) ==
    IF items = <<>> THEN [nodes |-> nodes, err |-> nilErr]
    ELSE LET conv == FromUnstructured(Head(items)) IN
         IF conv.err # nilErr THEN collateItems_skipBad(Tail(items), nodes)
         ELSE collateItems_skipBad(Tail(items), Append(nodes, conv.node))

\* inner loop of getNodes: the items of one result object
RECURSIVE collateItems(_, _)
collateItems(items, nodes) ==
    IF items = <<>> THEN [nodes |-> nodes, err |-> nilErr]
    ELSE LET conv == FromUnstructured(Head(items)) IN
         IF conv.err # nilErr THEN [nodes |-> <<>>, err |-> conv.err]
         ELSE collateItems(Tail(items), Append(nodes, conv.node))

\* outer loop of getNodes: the result objects
RECURSIVE collateResults(_, _)
collateResults(results, nodes) ==
    IF results = <<>> THEN [nodes |-> nodes, err |-> nilErr]
    ELSE LET r == collateItems(Head(results), nodes) IN
         IF r.err # nilErr THEN r
         ELSE collateResults(Tail(results), r.nodes)

getNodes(cl, names, labels) ==
    LET sr == Search(cl, "core", "nodes", "", "", names, labels, "") IN
    IF sr.err # nilErr THEN [nodes |-> <<>>, err |-> sr.err]
    ELSE collateResults(sr.results, <<>>)

\* variant: a names argument given next to nodes is kept
renameNodes_keepNames(structVal) ==
    IF "nodes" \in DOMAIN structVal /\ "names" \notin DOMAIN structVal
    THEN [k \in DOMAIN structVal \cup {"names"} |->
            IF k = "names" THEN structVal["nodes"] ELSE structVal[k]]
    ELSE structVal

\* lines 75-81 of generateSearchParams: the struct handed to NewSearchParams
renameNodes(structVal) ==
    IF "nodes" \in DOMAIN structVal
    THEN [k \in DOMAIN structVal \cup {"names"} |->
            IF k = "names" THEN structVal["nodes"] ELSE structVal[k]]
    ELSE structVal

\* variant: the renaming is done on the caller's struct
generateSearchParams_inPlace(structVal) ==
    [params |-> NewSearchParams(renameNodes(structVal)), arg |-> renameNodes(structVal)]

\* params: the search parameters; arg: the caller's struct after the call
generateSearchParams(structVal) ==
    [params |-> NewSearchParams(renameNodes(structVal)), arg |-> structVal]

\* the node loop of newKubeNodesProvider, appending to nodeIps
RECURSIVE appendIps(_, _)
appendIps(ips, nodes) ==
    IF nodes = <<>> THEN ips
    ELSE appendIps(Append(ips, getNodeInternalIP(Head(nodes))), Tail(nodes))

\* variant: nodes without an internal address are left out
nodeIps_skipEmpty(nodes) == SelectSeq(appendIps(<<>>, nodes), LAMBDA ip : ip # "")

\* variant: nodeIps outlives the call and keeps the hosts of the call before
nodeIps_kept(nodes) ==
    appendIps(IF provider # <<>> /\ provider[1].value # <<>>
              THEN provider[1].value[1]["hosts"] ELSE <<>>, nodes)

\* var nodeIps starts out nil
nodeIps(nodes) == appendIps(<<>>, nodes)

\* variant: whatever the thread holds is stored, with no check of its type
addSshInfo_noCheck(thread, dict) ==
    [dict |-> dict @@ (sshCfg :> Local(thread, sshCfg)),
     calls |-> <<"thread.Local">>, err |-> nilErr]

\* "add ssh info to dictionary": calls lists the collaborators invoked
addSshInfo(thread, dict) ==
    LET data == Local(thread, sshCfg) IN
    IF sshCfg \notin DOMAIN dict
    THEN IF data.type # "struct"
         THEN [dict |-> dict, calls |-> <<"thread.Local">>,
               err |-> <<"kube_nodes_provider: default ssh_config not found">>]
         ELSE [dict |-> dict @@ (sshCfg :> data), calls |-> <<"thread.Local">>,
               err |-> nilErr]
    ELSE [dict |-> dict, calls |-> <<>>, err |-> nilErr]

\* An outcome: value and err are what the call returns.  The other fields
\* record what the call did: calls lists the collaborators it invoked in
\* order, search holds the parameters of the query when one was issued,
\* nodes the records getNodes returned, arg the caller's struct and thread
\* the thread's locals when the call returns.
Outcome(value, err, calls, search, nodes, arg, thread) ==
    [value |-> value, err |-> err, calls |-> calls, search |-> search,
     nodes |-> nodes, arg |-> arg, thread |-> thread]

\* variant: the default ssh_config is looked up before the cluster is searched
newKubeNodesProvider_defaultFirst(thread, structVal, cl) ==
    LET kc == getKubeConfigPath(thread, structVal)
        new == k8sNew(cl, kc.path)
        sp == generateSearchParams(structVal)
        gn == getNodes(cl, sp.params.names, sp.params.labels)
        dict == ("kind" :> kubeNodesProvider) @@ ("transport" :> "ssh")
                  @@ ("hosts" :> nodeIps(gn.nodes))
        ssh == addSshInfo(thread, dict)
        c2 == <<"getKubeConfigPath", "k8s.New">>
    IN  IF kc.err # nilErr
        THEN Outcome(<<>>, Wrap(kc.err, "failed to kubeconfig"),
                     <<"getKubeConfigPath">>, <<>>, <<>>, structVal, thread)
        ELSE IF new.err # nilErr
        THEN Outcome(<<>>, Wrap(new.err, "could not initialize search client"),
                     c2, <<>>, <<>>, structVal, thread)
        ELSE IF ssh.err # nilErr
        THEN Outcome(<<>>, ssh.err, c2 \o ssh.calls, <<>>, <<>>, structVal, thread)
        ELSE IF gn.err # nilErr
        THEN Outcome(<<>>, Wrap(gn.err, "could not fetch nodes"),
                     c2 \o ssh.calls \o <<"Search">>, <<sp.params>>, gn.nodes,
                     sp.arg, thread)
        ELSE Outcome(<<ssh.dict>>, nilErr, c2 \o ssh.calls \o <<"Search">>,
                     <<sp.params>>, gn.nodes, sp.arg, thread)

newKubeNodesProvider(thread, structVal, cl) ==
    LET kc == getKubeConfigPath(thread, structVal)
        new == k8sNew(cl, kc.path)
        sp == generateSearchParams(structVal)
        gn == getNodes(cl, sp.params.names, sp.params.labels)
        dict == ("kind" :> kubeNodesProvider) @@ ("transport" :> "ssh")
                  @@ ("hosts" :> nodeIps(gn.nodes))
        ssh == addSshInfo(thread, dict)
        c3 == <<"getKubeConfigPath", "k8s.New", "Search">>
    IN  IF kc.err # nilErr
        THEN Outcome(<<>>, Wrap(kc.err, "failed to kubeconfig"),
                     <<"getKubeConfigPath">>, <<>>, <<>>, structVal, thread)
        ELSE IF new.err # nilErr
        THEN Outcome(<<>>, Wrap(new.err, "could not initialize search client"),
                     <<"getKubeConfigPath", "k8s.New">>, <<>>, <<>>, structVal, thread)
        ELSE IF gn.err # nilErr
        THEN Outcome(<<>>, Wrap(gn.err, "could not fetch nodes"),
                     c3, <<sp.params>>, gn.nodes, sp.arg, thread)
        ELSE IF ssh.err # nilErr
        THEN Outcome(<<>>, ssh.err, c3 \o ssh.calls, <<sp.params>>, gn.nodes,
                     sp.arg, thread)
        ELSE Outcome(<<ssh.dict>>, nilErr, c3 \o ssh.calls, <<sp.params>>, gn.nodes,
                     sp.arg, thread)

\* KubeNodesProviderFn: the script calls kube_nodes_provider(**kwargs)
KubeNodesProviderFn ==
    LET sv == kwargsToStruct(kwargs)
        out == IF sv.err # nilErr
               THEN Outcome(<<>>, sv.err, <<>>, <<>>, <<>>, <<>>, threadLocal)
               ELSE newKubeNodesProvider(threadLocal, sv.value[1], cluster)
    IN  /\ provider' = <<out>>
        /\ prev' = provider
        /\ threadLocal' = out.thread
        /\ fn' = kubeNodesProvider
        /\ UNCHANGED <<kwargs, cluster, config>>

----------------------------------------------------------------------------
(* crashd_config *)

\* A *starlark.Dict: nil, or its entries in insertion order
NilDict == [type |-> "dict", nil |-> TRUE, entries |-> <<>>]
Dict(entries) == [type |-> "dict", nil |-> FALSE, entries |-> entries]
Unset == [type |-> "nil", nil |-> TRUE, entries |-> <<>>]

\* starlark.Dict.SetKey: only hashable keys; an existing key keeps its place
Hashable(key) == key.type # "list"

SetKey(entries, key, value) ==
    IF \E i \in DOMAIN entries : entries[i][1] = key
    THEN [i \in DOMAIN entries |->
            IF entries[i][1] = key THEN <<key, value>> ELSE entries[i]]
    ELSE Append(entries, <<key, value>>)

\* tupleSliceToDict: a dictionary of the tuples, in order
RECURSIVE fillDict(_, _)
fillDict(tuples, entries) ==
    IF tuples = <<>> THEN [dict |-> Dict(entries), err |-> nilErr]
    ELSE IF ~Hashable(Head(tuples)[1])
         THEN [dict |-> NilDict, err |-> <<"unhashable type: list">>]
         ELSE fillDict(Tail(tuples), SetKey(entries, Head(tuples)[1], Head(tuples)[2]))

tupleSliceToDict(tuples) == fillDict(tuples, <<>>)

\* A Go slice of tuples: nil, or its elements
NilSlice == [nil |-> TRUE, elems |-> <<>>]
Slice(elems) == [nil |-> FALSE, elems |-> elems]

\* variant: the dictionary is stored before the conversion error is looked at
crashdConfigFn_storeFirst(thread, kw) ==
    LET conv == tupleSliceToDict(kw.elems)
        dictionary == IF kw.nil THEN NilDict ELSE conv.dict
        stored == [thread EXCEPT ![crashdCfg] = dictionary]
    IN  IF ~kw.nil /\ conv.err # nilErr
        THEN [value |-> NilDict, none |-> TRUE, err |-> conv.err, thread |-> stored,
              kwargs |-> kw]
        ELSE [value |-> dictionary, none |-> FALSE, err |-> nilErr,
              thread |-> stored, kwargs |-> kw]

\* value: the returned starlark.Value; none: TRUE when it is starlark.None;
\* thread: the thread's locals when the call returns; kwargs: what was passed
crashdConfigFn(thread, kw) ==
    LET conv == tupleSliceToDict(kw.elems)
        dictionary == IF kw.nil THEN NilDict ELSE conv.dict
    IN  IF ~kw.nil /\ conv.err # nilErr
        THEN [value |-> NilDict, none |-> TRUE, err |-> conv.err, thread |-> thread,
              kwargs |-> kw]
        ELSE [value |-> dictionary, none |-> FALSE, err |-> nilErr,
              thread |-> [thread EXCEPT ![crashdCfg] = dictionary], kwargs |-> kw]

\* values of getGid(), getUid(), defaults.workdir and defaults.outPath
Ids == {"0", "1000"}
workdir == "/tmp/crashd"
outPath == "."

\* addDefaultCrashdConf, run with the ids of the current user
addDefaultCrashdConf ==
    \E gid \in Ids, uid \in Ids :
        LET args == << <<Str("gid"), Str(gid)>>, <<Str("uid"), Str(uid)>>,
                       <<Str("workdir"), Str(workdir)>>,
                       <<Str("output_path"), Str(outPath)>> >>
            r == crashdConfigFn(threadLocal, Slice(args))
        IN  /\ config' = <<r>>
            /\ threadLocal' = r.thread
            /\ fn' = "addDefaultCrashdConf"
            /\ UNCHANGED <<kwargs, cluster, provider, prev>>

\* keyword tuples a script or a Go caller may pass to crashd_config
ConfigTuples ==
    { <<Str("workdir"), Str("/tmp/foo")>>, <<Str("workdir"), Str("/tmp/bar")>>,
      <<List("[]"), Str("x")>> }

ConfigKwargs == {NilSlice} \cup {Slice(t) : t \in SeqUpTo(ConfigTuples, MaxKwargs)}

\* the script calls crashd_config(**kw)
CrashdConfig ==
    \E kw \in ConfigKwargs :
        LET r == crashdConfigFn(threadLocal, kw) IN
        /\ config' = <<r>>
        /\ threadLocal' = r.thread
        /\ fn' = crashdCfg
        /\ UNCHANGED <<kwargs, cluster, provider, prev>>

----------------------------------------------------------------------------
(* Inputs *)

\* at most one keyword tuple for key, its value among vals
OptTuple(key, vals) == {<<>>} \cup { << <<Str(key), v>> >> : v \in vals }

KwargsSet ==
    { a \o b \o c \o d \o e :
        a \in OptTuple("names", {List("node-c")}),
        b \in OptTuple("nodes", {List("node-b")}),
        c \in OptTuple("labels", {List("role=worker")}),
        d \in OptTuple(sshCfg, {Struct("ssh_config(username=explicit)")}),
        e \in OptTuple(kubeCfg, {Struct("/explicit/kubeconfig")}) }

Addresses ==
    { [Type |-> "InternalIP", Address |-> "10.0.0.5"],
      [Type |-> "InternalIP", Address |-> "10.0.0.6"],
      [Type |-> "ExternalIP", Address |-> "34.0.0.1"],
      [Type |-> "Hostname", Address |-> "node-a"] }

Item(addrs) == [ok |-> TRUE, addrs |-> addrs]
BadItem == [ok |-> FALSE, addrs |-> <<>>]

\* items of the searches that return several nodes
PoolItems ==
    { BadItem,
      Item(<< [Type |-> "Hostname", Address |-> "node-a"] >>),
      Item(<< [Type |-> "ExternalIP", Address |-> "34.0.0.1"],
              [Type |-> "InternalIP", Address |-> "10.0.0.5"],
              [Type |-> "InternalIP", Address |-> "10.0.0.6"] >>) }

Cluster(newOk, searchOk, results) ==
    [newOk |-> newOk, searchOk |-> searchOk, results |-> results]

\* answers with up to MaxResults result objects and MaxNodes items in all
PoolAnswers ==
    { r \in SeqUpTo(SeqUpTo(PoolItems, MaxNodes), MaxResults) :
        Len(Flatten(r)) <= MaxNodes }

\* answers with one node, its address list of any shape up to MaxAddrs
SingleAnswers == { << <<Item(a)>> >> : a \in SeqUpTo(Addresses, MaxAddrs) }

ClusterSet ==
    {Cluster(FALSE, TRUE, <<>>), Cluster(TRUE, FALSE, <<>>)}
      \cup {Cluster(TRUE, TRUE, r) : r \in PoolAnswers \cup SingleAnswers}

ThreadSet ==
    { [ssh_config |-> s, kube_config |-> k, crashd_config |-> Unset] :
        s \in {NilValue, Str("not a struct"), Struct("ssh_config(username=default)")},
        k \in {NilValue, Struct("/default/kubeconfig")} }

----------------------------------------------------------------------------
(* Specifications *)

Init ==
    /\ kwargs \in KwargsSet
    /\ cluster \in ClusterSet
    /\ threadLocal \in ThreadSet
    /\ provider = <<>>
    /\ prev = <<>>
    /\ config = <<>>
    /\ fn = ""

Next == KubeNodesProviderFn

Spec == Init /\ [][Next]_vars

\* crashd_config calls, before and between provider resolutions
InitCfg ==
    /\ kwargs = << <<Str("names"), List("node-c")>>, <<Str("nodes"), List("node-b")>> >>
    /\ cluster = Cluster(TRUE, TRUE, << <<Item(<<>>)>> >>)
    /\ threadLocal \in {t \in ThreadSet : t.kube_config # NilValue /\ t.ssh_config.type # "string"}
    /\ provider = <<>>
    /\ prev = <<>>
    /\ config = <<>>
    /\ fn = ""

NextCfg == CrashdConfig \/ addDefaultCrashdConf \/ KubeNodesProviderFn

SpecCfg == InitCfg /\ [][NextCfg]_vars

----------------------------------------------------------------------------
(* Properties *)

\* the struct built from the script's keyword arguments
Args == kwargsToStruct(kwargs).value[1]

\* the items of the cluster's answer, result by result
Items == Flatten(cluster.results)

HasKubeConfig == kubeCfg \in DOMAIN Args \/ threadLocal[kubeCfg].type = "struct"
HasDefault == threadLocal[sshCfg].type = "struct"
AllDecode == \A i \in DOMAIN Items : Items[i].ok
Resolved == provider # <<>>
Returned == provider # <<>> /\ provider[1].value # <<>>

MissingDefault == <<"kube_nodes_provider: default ssh_config not found">>
SearchFailed == <<"could not fetch nodes", "search failed">>
DecodeFailed == <<"could not fetch nodes", "cannot convert item">>

\* first entry of type InternalIP, by position
FirstInternal(addrs) ==
    LET idx == {j \in DOMAIN addrs : addrs[j].Type = "InternalIP"} IN
    IF idx = {} THEN ""
    ELSE addrs[CHOOSE j \in idx : \A k \in idx : j <= k].Address

\* C1: when the arguments carry an ssh_config, the returned provider's
\* ssh_config is that value, and the thread's default plays no part: the
\* call does not fail for want of a default either.
C1_ExplicitConnection ==
    (Resolved /\ sshCfg \in DOMAIN Args) =>
        /\ provider[1].err # MissingDefault
        /\ Returned => provider[1].value[1][sshCfg] = Args[sshCfg]

\* C2 as written: without an ssh_config argument and without a default in
\* the thread, every resolution fails with the missing-default error and
\* returns nothing; with a default, a returned provider carries it.
C2_Original ==
    (Resolved /\ sshCfg \notin DOMAIN Args) =>
        /\ ~HasDefault => provider[1].err = MissingDefault /\ provider[1].value = <<>>
        /\ (HasDefault /\ Returned) => provider[1].value[1][sshCfg] = threadLocal[sshCfg]

\* C2 amended: without an ssh_config argument and without a default in the
\* thread, every resolution fails and returns nothing, and the error is the
\* missing-default error whenever the kubeconfig lookup, the client
\* construction, the search and the decoding all succeeded; with a default,
\* a returned provider carries it.
C2_MissingDefault ==
    (Resolved /\ sshCfg \notin DOMAIN Args) =>
        /\ ~HasDefault => provider[1].err # nilErr /\ provider[1].value = <<>>
        /\ (~HasDefault /\ HasKubeConfig /\ cluster.newOk /\ cluster.searchOk /\ AllDecode)
              => provider[1].err = MissingDefault
        /\ (HasDefault /\ Returned) => provider[1].value[1][sshCfg] = threadLocal[sshCfg]

C2_Witness ==
    /\ Resolved /\ sshCfg \notin DOMAIN Args /\ ~HasDefault
    /\ Len(Items) = 2
    /\ provider[1].err = MissingDefault /\ provider[1].value = <<>>

\* C3: a successful resolution over N items has N node records in the order
\* of the answer (result by result, item by item) and N hosts, the i-th the
\* internal address of the i-th record, empty strings included.
C3_HostsInOrder ==
    Returned =>
        LET nodes == provider[1].nodes
            hosts == provider[1].value[1]["hosts"]
        IN  /\ Len(nodes) = Len(Items)
            /\ \A i \in DOMAIN Items : nodes[i].Status.Addresses = Items[i].addrs
            /\ Len(hosts) = Len(Items)
            /\ \A i \in DOMAIN nodes : hosts[i] = getNodeInternalIP(nodes[i])

C3_Witness ==
    /\ Returned
    /\ Len(cluster.results) = 2 /\ Len(cluster.results[1]) = 1
    /\ provider[1].value[1]["hosts"] = <<"", "10.0.0.5">>

\* C4: a host is the address of the first InternalIP entry of its node, ""
\* when the node has none, and a node without one does not make the
\* resolution fail.
C4_FirstInternalIP ==
    /\ Returned =>
          LET hosts == provider[1].value[1]["hosts"] IN
          /\ DOMAIN hosts = DOMAIN Items
          /\ \A i \in DOMAIN Items : hosts[i] = FirstInternal(Items[i].addrs)
    /\ (Resolved /\ HasKubeConfig /\ HasDefault /\ cluster.newOk /\ cluster.searchOk
          /\ AllDecode) => Returned /\ provider[1].err = nilErr

C4_Witness ==
    /\ Returned
    /\ Len(Items) = 1
    /\ Items[1].addrs = << [Type |-> "InternalIP", Address |-> "10.0.0.6"],
                           [Type |-> "InternalIP", Address |-> "10.0.0.5"] >>
    /\ provider[1].value[1]["hosts"] = <<"10.0.0.6">>

\* C5: the names searched for are the names argument when there is no nodes
\* argument, the nodes argument when there is one (a names argument next to
\* it is dropped), and labels is searched for as given.
C5_SearchNames ==
    (Resolved /\ provider[1].search # <<>>) =>
        LET params == provider[1].search[1] IN
        /\ ("names" \in DOMAIN Args /\ "nodes" \notin DOMAIN Args)
              => params.names = Args["names"]
        /\ "nodes" \in DOMAIN Args => params.names = Args["nodes"]
        /\ "labels" \in DOMAIN Args => params.labels = Args["labels"]

C5_Witness ==
    /\ Resolved /\ provider[1].search # <<>>
    /\ "nodes" \in DOMAIN Args /\ "names" \in DOMAIN Args /\ "labels" \in DOMAIN Args
    /\ Args["names"] # Args["nodes"]
    /\ provider[1].search[1].names = Args["nodes"]

\* C6: a resolution returns an error and nothing else, or a complete
\* provider and no error; each failure (no kubeconfig, no client, search
\* error, an item that does not decode, no default ssh_config) gives the
\* former, and after a decode failure getNodes has returned no records.
C6_AllOrNothing ==
    Resolved =>
        /\ provider[1].err # nilErr => provider[1].value = <<>>
        /\ provider[1].err = nilErr =>
              /\ provider[1].value # <<>>
              /\ DOMAIN provider[1].value[1] = {"kind", "transport", "hosts", sshCfg}
        /\ (~HasKubeConfig \/ ~cluster.newOk \/ ~cluster.searchOk \/ ~AllDecode
              \/ ~HasDefault) => provider[1].err # nilErr
        /\ (provider[1].search # <<>> /\ ~AllDecode) =>
              provider[1].err = DecodeFailed /\ provider[1].nodes = <<>>

C6_Witness ==
    /\ Resolved /\ HasDefault
    /\ Len(Items) = 2 /\ Items[1].ok /\ ~Items[2].ok
    /\ provider[1].err = DecodeFailed
    /\ provider[1].value = <<>> /\ provider[1].nodes = <<>>

\* C7: a provider resolution changes no entry of the thread's locals and
\* leaves the keyword arguments and the struct made of them as they were.
C7_ReadOnly ==
    [][fn' = kubeNodesProvider =>
          /\ threadLocal' = threadLocal
          /\ kwargs' = kwargs
          /\ provider'[1].arg = Args]_vars

C7_Witness ==
    /\ fn = kubeNodesProvider
    /\ Returned
    /\ "nodes" \in DOMAIN Args
    /\ threadLocal[crashdCfg].entries # <<>>

LastValue(tuples, key) ==
    tuples[CHOOSE i \in DOMAIN tuples :
              /\ tuples[i][1] = key
              /\ \A j \in DOMAIN tuples : tuples[j][1] = key => j <= i][2]

\* C9: a crashd_config call that succeeds returns the dictionary of its
\* keyword arguments (nil for nil arguments, empty for none) and leaves it
\* as the thread's crashd_config entry, whatever was there; one whose
\* conversion fails returns None and the error and leaves the entry alone;
\* nothing else changes the entry.
C9_ConfigStored ==
    [][config' # <<>> =>
          LET r == config'[1] IN
          IF r.err = nilErr
          THEN /\ threadLocal'[crashdCfg] = r.value
               /\ ~r.none
               /\ r.value.nil = r.kwargs.nil
               /\ {r.value.entries[i][1] : i \in DOMAIN r.value.entries}
                     = {r.kwargs.elems[i][1] : i \in DOMAIN r.kwargs.elems}
               /\ \A i \in DOMAIN r.value.entries :
                     r.value.entries[i][2]
                       = LastValue(r.kwargs.elems, r.value.entries[i][1])
          ELSE /\ threadLocal'[crashdCfg] = threadLocal[crashdCfg]
               /\ r.none]_vars

C9_Witness ==
    /\ fn = crashdCfg
    /\ config # <<>> /\ config[1].err # nilErr /\ config[1].none
    /\ threadLocal[crashdCfg].entries # <<>>

\* C10: the steps run in the order kubeconfig lookup, client construction,
\* search and decoding, default ssh_config; the first failure ends the call:
\* no search after a kubeconfig or client failure, a search or decode error
\* whether or not a default exists, and the missing-default error only
\* after a search whose items all decoded.
C10_StepOrder ==
    Resolved =>
        LET out == provider[1] IN
        /\ ~HasKubeConfig =>
              /\ Head(out.err) = "failed to kubeconfig"
              /\ out.calls = <<"getKubeConfigPath">> /\ out.search = <<>>
        /\ (HasKubeConfig /\ ~cluster.newOk) =>
              /\ Head(out.err) = "could not initialize search client"
              /\ out.calls = <<"getKubeConfigPath", "k8s.New">> /\ out.search = <<>>
        /\ (HasKubeConfig /\ cluster.newOk /\ ~cluster.searchOk) =>
              /\ out.err = SearchFailed
              /\ out.calls = <<"getKubeConfigPath", "k8s.New", "Search">>
        /\ (HasKubeConfig /\ cluster.newOk /\ cluster.searchOk /\ ~AllDecode) =>
              /\ out.err = DecodeFailed
              /\ out.calls = <<"getKubeConfigPath", "k8s.New", "Search">>
        /\ out.err = MissingDefault =>
              /\ cluster.searchOk /\ AllDecode /\ out.search # <<>>
              /\ out.calls = <<"getKubeConfigPath", "k8s.New", "Search", "thread.Local">>

C10_Witness ==
    /\ Resolved /\ HasKubeConfig /\ cluster.newOk
    /\ ~cluster.searchOk /\ ~HasDefault
    /\ provider[1].err = SearchFailed

====
